---- MODULE Spec2Model ----
(***************************************************************************)
(* GitHubContributionsAnalyzer (github_contributions_script.py) as a state *)
(* machine: main, analyze_contributions, fetch_commits_for_contributor,    *)
(* parse_datetime, the three groupby aggregations and export_reports.      *)
(* The GitHub API (session.get) is the environment: every request draws    *)
(* its response from a small set.                                          *)
(***************************************************************************)
EXTENDS Integers, Sequences, FiniteSets, TLC

VARIABLES
    pc,                 \* position of main / analyze_contributions
    config,             \* which of GITHUB_TOKEN, ORGANIZATION_NAME are set
    repos,              \* analyze_contributions: repos
    ri,                 \* index of the current repo of `for repo in repos`
    contributors,       \* analyze_contributions: contributors
    ci,                 \* index of the current contributor of the inner loop
    page,               \* fetch_commits_for_contributor: page
    all_commits,        \* fetch_commits_for_contributor: all_commits
    response,           \* fetch_commits_for_contributor: response
    lastReq,            \* params['page'] of the latest commits request
    fpc,                \* position inside fetch_commits_for_contributor
    nreq,               \* session.get calls issued by the current call
    nsleep,             \* time.sleep calls issued by the current call
    all_contributions,  \* analyze_contributions: all_contributions
    analyses,           \* the dictionary analyze_contributions returned
    tablesWritten,      \* granularities export_reports wrote with to_csv
    dirCreated,         \* export_reports ran os.makedirs
    log                 \* logger.error / final notices emitted so far

vars == <<pc, config, repos, ri, contributors, ci, page, all_commits, response,
          lastReq, fpc, nreq, nsleep, all_contributions, analyses, tablesWritten,
          dirCreated, log>>

fetchVars == <<page, all_commits, response, lastReq, fpc, nreq, nsleep>>
loopVars  == <<repos, ri, contributors, ci>>
outVars   == <<analyses, tablesWritten, dirCreated>>

-----------------------------------------------------------------------------
(* Program constants *)

PER_PAGE == 100            \* params['per_page']
PAGE_LIMIT == 10           \* the page-count ceiling
RATE_LIMIT_STATUS == 403   \* if response.status_code == 403
BACKOFF_SECONDS == 60      \* time.sleep(60)

(* Bounds of the model *)

MaxRepos == 2              \* repositories the organization listing returns
MaxEvents == 3             \* CommitEvents handed to the aggregation alone
MaxParseCommits == 2       \* commits whose dates are parsed in one go

-----------------------------------------------------------------------------
(* Calendar.  A date is the number of days since 2023-12-31, so 1 is       *)
(* 2024-01-01 (a Monday); the window is the first quarter of 2024.         *)

MonthDays == <<31, 29, 31>>

RECURSIVE MonthEndFrom(_, _, _)
MonthEndFrom(d, m, acc) ==
    IF m > Len(MonthDays) THEN acc
    ELSE IF d <= acc + MonthDays[m] THEN acc + MonthDays[m]
    ELSE MonthEndFrom(d, m + 1, acc + MonthDays[m])

\* a month labelled by its first day
MonthFirst(d) == IF d <= 31 THEN 1 ELSE IF d <= 60 THEN 32 ELSE 61

\* last day of d's calendar month: the label of pd.Grouper(freq='M')
MonthEnd(d) == MonthEndFrom(d, 1, 0)

\* datetime.weekday(): 0 is Monday, 6 is Sunday
Weekday(d) == (d - 1) % 7

\* a week labelled by the Monday that starts it
WeekStart(d) == d - Weekday(d)

\* the Sunday ending d's week: the label of pd.Grouper(freq='W') (W-SUN)
WeekEnd(d) == d + (6 - Weekday(d))

\* the label of pd.Grouper(freq='D')
DayStart(d) == d

-----------------------------------------------------------------------------
(* Timestamp strings.  A string is modelled by the fields strptime looks   *)
(* at: the date it spells (ymd), the date separator, whether fractional    *)
(* seconds are present, and the zone suffix ("Z", "+hh:mm" or none).       *)

TsZ(d)       == [ymd |-> d, sep |-> "-", frac |-> FALSE, zone |-> "Z"]
TsFracOff(d) == [ymd |-> d, sep |-> "-", frac |-> TRUE,  zone |-> "+hh:mm"]
TsOff(d)     == [ymd |-> d, sep |-> "-", frac |-> FALSE, zone |-> "+hh:mm"]
TsFracZ(d)   == [ymd |-> d, sep |-> "-", frac |-> TRUE,  zone |-> "Z"]
TsSlash(d)   == [ymd |-> d, sep |-> "/", frac |-> FALSE, zone |-> "Z"]
TsNoZone(d)  == [ymd |-> d, sep |-> "-", frac |-> FALSE, zone |-> ""]

\* the formats of parse_datetime, in probing order; zone "Z" is the literal
\* character Z of the first format, "%z" the directive of the other two
timestamp_formats ==
    << [frac |-> FALSE, zone |-> "Z"],
       [frac |-> TRUE,  zone |-> "%z"],
       [frac |-> FALSE, zone |-> "%z"] >>

\* datetime.strptime(timestamp_str, fmt) succeeds (%z also accepts "Z")
StrptimeMatches(ts, fmt) ==
    /\ ts.sep = "-"
    /\ ts.frac = fmt.frac
    /\ IF fmt.zone = "Z" THEN ts.zone = "Z" ELSE ts.zone \in {"Z", "+hh:mm"}

RECURSIVE ProbeFormats(_, _)
ProbeFormats(ts, i) ==
    IF i > Len(timestamp_formats) THEN [ok |-> FALSE, date |-> 0]
    ELSE IF StrptimeMatches(ts, timestamp_formats[i])
         THEN [ok |-> TRUE, date |-> ts.ymd]
         ELSE ProbeFormats(ts, i + 1)

\* a probe that gives up after the first format
ParseFirstFormatOnly(ts) ==
    IF StrptimeMatches(ts, timestamp_formats[1])
    THEN [ok |-> TRUE, date |-> ts.ymd]
    ELSE [ok |-> FALSE, date |-> 0]

\* parse_datetime: ok = FALSE stands for the ValueError it raises
parse_datetime(ts) == ProbeFormats(ts, 1)

-----------------------------------------------------------------------------
(* Responses of session.get.  status 0 stands for an exception raised by   *)
(* the transport itself (no response object).                              *)

Ok(body)   == [status |-> 200, body |-> body]
RateLimit  == [status |-> RATE_LIMIT_STATUS, body |-> <<>>]
ServerErr  == [status |-> 500, body |-> <<>>]
Transport  == [status |-> 0, body |-> <<>>]
NoResponse == [status |-> -1, body |-> <<>>]

\* a page of n raw commits of page p, all dated ts
CommitPage(p, n, ts) == [i \in 1..n |-> [sha |-> <<p, i>>, date |-> ts]]

\* response.raise_for_status() raises
RaisesForStatus(r) == r.status >= 400

\* the rate-limit test of the three request sites
IsRateLimited(r) == r.status = RATE_LIMIT_STATUS

ErrorLog(kind, r, c) == [kind |-> kind, repo |-> r, contributor |-> c]

CurRepo == repos[ri]
CurContributor == contributors[ci]

-----------------------------------------------------------------------------
(* fetch_commits_for_contributor *)

\* a fetch that threw its pages away on a fault
DiscardOnFetchError(acc) == <<>>

\* what the except branch leaves to `return all_commits`
AfterFetchError(acc) == acc

\* a page appended twice
ExtendCommitsTwice(acc, body) == acc \o body \o body

\* a page put in front of the accumulator
ExtendCommitsPrepend(acc, body) == body \o acc

\* all_commits.extend(page_commits)
ExtendCommits(acc, body) == acc \o body

\* a ceiling test that is off by one
PageCeilingLate(p) == p > PAGE_LIMIT + 1

\* a loop without the page-count ceiling
PageCeilingNever(p) == FALSE

\* if page > 10: break
PageCeiling(p) == p > PAGE_LIMIT

\* a retry that moves on to the next page
RetryNextPage(p) == p + 1

\* the page the retry asks for: params is not touched between the two gets
RetryPage(p) == p

\* except Exception: logger.error(...); break; return all_commits
FetchExcept ==
    /\ all_commits' = AfterFetchError(all_commits)
    /\ fpc' = "returned"
    /\ log' = log \cup {ErrorLog("fetch_error", CurRepo, CurContributor)}
    /\ page' = page

\* response = self.session.get(commits_url, params=params)
FetchGet(Responses) ==
    /\ pc = "fetch" /\ fpc = "get"
    /\ \E r \in Responses :
         /\ response' = r
         /\ lastReq' = page
         /\ nreq' = nreq + 1
         /\ IF r.status = 0
            THEN FetchExcept
            ELSE /\ fpc' = "first"
                 /\ UNCHANGED <<page, all_commits, log>>
    /\ UNCHANGED <<pc, config, loopVars, nsleep, all_contributions, outVars>>

\* if response.status_code == 403: logger.warning(...); time.sleep(60)
FetchBackoff ==
    /\ pc = "fetch" /\ fpc = "first"
    /\ IsRateLimited(response)
    /\ nsleep' = nsleep + 1
    /\ fpc' = "retry"
    /\ UNCHANGED <<pc, config, loopVars, page, all_commits, response, lastReq,
                   nreq, all_contributions, outVars, log>>

\* response = self.session.get(commits_url, params=params), the retry
FetchRetry(Responses) ==
    /\ pc = "fetch" /\ fpc = "retry"
    /\ \E r \in Responses :
         /\ response' = r
         /\ lastReq' = RetryPage(page)
         /\ nreq' = nreq + 1
         /\ IF r.status = 0
            THEN FetchExcept
            ELSE /\ fpc' = "second"
                 /\ UNCHANGED <<page, all_commits, log>>
    /\ UNCHANGED <<pc, config, loopVars, nsleep, all_contributions, outVars>>

\* response.raise_for_status(); page_commits = response.json(); the rest of
\* the loop body
FetchPage ==
    /\ pc = "fetch"
    /\ \/ fpc = "first" /\ ~IsRateLimited(response)
       \/ fpc = "second"
    /\ IF RaisesForStatus(response)
       THEN FetchExcept
       ELSE IF response.body = <<>>
       THEN /\ fpc' = "returned"
            /\ UNCHANGED <<page, all_commits, log>>
       ELSE /\ all_commits' = ExtendCommits(all_commits, response.body)
            /\ page' = page + 1
            /\ fpc' = IF PageCeiling(page + 1) THEN "returned" ELSE "get"
            /\ log' = log
    /\ UNCHANGED <<pc, config, loopVars, response, lastReq, nreq, nsleep,
                   all_contributions, outVars>>

-----------------------------------------------------------------------------
(* One call of fetch_commits_for_contributor on its own, against a server  *)
(* that may answer any request with an empty, a short or a full page, a    *)
(* rate-limit signal, an HTTP error or a transport error.                  *)

FetchBodySizes == {0, 1, PER_PAGE}

FetchResponses(p) ==
    {Ok(CommitPage(p, n, TsZ(1))) : n \in FetchBodySizes}
        \cup {RateLimit, ServerErr, Transport}

InitFetch ==
    /\ pc = "fetch"
    /\ config = [token |-> TRUE, org |-> TRUE]
    /\ repos = <<"r1">> /\ ri = 1
    /\ contributors = <<"alice">> /\ ci = 1
    /\ page = 1 /\ all_commits = <<>>
    /\ response = NoResponse /\ lastReq = 0
    /\ fpc = "get" /\ nreq = 0 /\ nsleep = 0
    /\ all_contributions = <<>>
    /\ analyses = <<>> /\ tablesWritten = {} /\ dirCreated = FALSE
    /\ log = {}

AloneGet == FetchGet(FetchResponses(page))
AloneRetry == FetchRetry(FetchResponses(RetryPage(page)))

NextFetch ==
    \/ AloneGet
    \/ FetchBackoff
    \/ AloneRetry
    \/ FetchPage

SpecFetch == InitFetch /\ [][NextFetch]_vars

-----------------------------------------------------------------------------
(* get_organization_repos / get_repository_contributors: one get, one      *)
(* retry after a rate-limit signal, raise_for_status, the listed names.    *)

\* the response the listing call ends with, given the answers to its first
\* request and (if it is made) to its retry
ListingFinal(r1, r2) == IF IsRateLimited(r1) THEN r2 ELSE r1

\* the listing call raises
ListingFails(r1, r2) ==
    \/ r1.status = 0
    \/ ListingFinal(r1, r2).status = 0
    \/ RaisesForStatus(ListingFinal(r1, r2))

\* a listing that asks a second time after its retry
ListingRequestsRetryTwice(r1) == IF IsRateLimited(r1) THEN 3 ELSE 1

\* requests and backoff suspensions one listing call makes
ListingRequests(r1) == IF IsRateLimited(r1) THEN 2 ELSE 1
ListingSleeps(r1) == IF IsRateLimited(r1) THEN 1 ELSE 0

-----------------------------------------------------------------------------
(* analyze_contributions: the commits of one contributor *)

RECURSIVE CommitsDataFrom(_, _, _, _)
CommitsDataFrom(repo, contributor, commits, i) ==
    IF i > Len(commits) THEN [ok |-> TRUE, events |-> <<>>]
    ELSE LET d == parse_datetime(commits[i].date)
             rest == CommitsDataFrom(repo, contributor, commits, i + 1)
         IN  IF ~d.ok THEN [ok |-> FALSE, events |-> <<>>]
             ELSE IF ~rest.ok THEN rest
             ELSE [ok |-> TRUE,
                   events |-> << [repository |-> repo,
                                  contributor |-> contributor,
                                  commit_date |-> d.date,
                                  commit_count |-> 1] >> \o rest.events]

\* a comprehension that skips the commits it cannot date
CommitsDataSkipping(repo, contributor, commits) ==
    LET good == SelectSeq(commits, LAMBDA c : parse_datetime(c.date).ok)
    IN  [ok |-> TRUE,
         events |-> [i \in 1..Len(good) |->
                        [repository |-> repo, contributor |-> contributor,
                         commit_date |-> parse_datetime(good[i].date).date,
                         commit_count |-> 1]]]

\* the list comprehension commits_data: ok = FALSE when parse_datetime raised
CommitsData(repo, contributor, commits) ==
    CommitsDataFrom(repo, contributor, commits, 1)

-----------------------------------------------------------------------------
(* analyze_contributions: the three groupby(...)['commit_count'].sum()     *)

Granularities ==
    {"daily_contributions", "weekly_contributions", "monthly_contributions"}

\* a grouping that sums only the first unbroken run of rows with the key
SumOfKeyFirstRun(keyed, key, i) ==
    LET first == CHOOSE j \in DOMAIN keyed :
                    /\ keyed[j].key = key
                    /\ \A k \in 1..(j - 1) : keyed[k].key # key
    IN  Cardinality({j \in first..Len(keyed) :
                        \A k \in first..j : keyed[k].key = key})

RECURSIVE SumOfKey(_, _, _)
SumOfKey(keyed, key, i) ==
    IF i > Len(keyed) THEN 0
    ELSE (IF keyed[i].key = key THEN keyed[i].n ELSE 0)
         + SumOfKey(keyed, key, i + 1)

\* .first() in place of .sum()
GroupFirst(keyed) ==
    { [repository |-> k[1], contributor |-> k[2], commit_date |-> k[3],
       commit_count |-> 1] :
      k \in {keyed[i].key : i \in DOMAIN keyed} }

\* groupby([repository, contributor, Grouper(commit_date)]).sum().reset_index()
\* over rows already carrying their group key: one row per observed key
GroupSum(keyed) ==
    { [repository |-> k[1], contributor |-> k[2], commit_date |-> k[3],
       commit_count |-> SumOfKey(keyed, k, 1)] :
      k \in {keyed[i].key : i \in DOMAIN keyed} }

\* the bin label pd.Grouper(key='commit_date', freq=...) gives a date
GrouperLabel(g, d) ==
    IF g = "daily_contributions" THEN DayStart(d)
    ELSE IF g = "weekly_contributions" THEN WeekEnd(d)
    ELSE MonthEnd(d)

\* the rows of the DataFrame with the group key of granularity g
Keyed(events, g) ==
    [i \in DOMAIN events |->
        [key |-> <<events[i].repository, events[i].contributor,
                   GrouperLabel(g, events[i].commit_date)>>,
         n |-> events[i].commit_count]]

DailyTable(events)   == GroupSum(Keyed(events, "daily_contributions"))
WeeklyTable(events)  == GroupSum(Keyed(events, "weekly_contributions"))
MonthlyTable(events) == GroupSum(Keyed(events, "monthly_contributions"))

\* the dictionary built at `analyses = {...}`
Analyses(events) ==
    [g \in Granularities |->
        IF g = "daily_contributions" THEN DailyTable(events)
        ELSE IF g = "weekly_contributions" THEN WeeklyTable(events)
        ELSE MonthlyTable(events)]

\* the emptiness test left out
NeverNoContributions(events) == FALSE

\* if not all_contributions: logger.warning(...); return {}
NoContributions(events) == events = <<>>

\* for granularity, df in analyses.items(): df.to_csv(...)
TablesToWrite(a) == DOMAIN a

-----------------------------------------------------------------------------
(* main and analyze_contributions *)

RepoNames == <<"r1", "r2", "r3", "r4">>
RepoLists == {SubSeq(RepoNames, 1, n) : n \in 0..MaxRepos}
ContributorLists == {<<>>, <<"alice">>, <<"alice", "bob">>}

ListStatuses == {RateLimit, ServerErr, Transport}
\* response.json() of a listing: one object per repository or contributor
RepoObjects(names) == [i \in DOMAIN names |-> [full_name |-> names[i]]]
ContributorObjects(names) == [i \in DOMAIN names |-> [login |-> names[i]]]

\* return [repo['full_name'] for repo in response.json()]
FullNames(body) == [i \in DOMAIN body |-> body[i].full_name]
\* return [contributor['login'] for contributor in response.json()]
Logins(body) == [i \in DOMAIN body |-> body[i].login]

RepoResponses == {Ok(RepoObjects(l)) : l \in RepoLists} \cup ListStatuses
ContributorResponses ==
    {Ok(ContributorObjects(l)) : l \in ContributorLists} \cup ListStatuses

\* commit pages served inside a whole run: every pair has at most one page
\* of commits (deeper pagination is the subject of SpecFetch)
RunBodies(p) ==
    IF p = 1
    THEN { <<>>,
           CommitPage(p, 1, TsZ(1)),
           << [sha |-> <<p, 1>>, date |-> TsOff(8)],
              [sha |-> <<p, 2>>, date |-> TsSlash(9)] >> }
    ELSE { <<>> }

RunResponses(p) ==
    {Ok(b) : b \in RunBodies(p)} \cup {RateLimit, ServerErr, Transport}

Init ==
    /\ pc = "main"
    /\ config \in [token : BOOLEAN, org : BOOLEAN]
    /\ repos = <<>> /\ ri = 1
    /\ contributors = <<>> /\ ci = 1
    /\ page = 1 /\ all_commits = <<>>
    /\ response = NoResponse /\ lastReq = 0
    /\ fpc = "idle" /\ nreq = 0 /\ nsleep = 0
    /\ all_contributions = <<>>
    /\ analyses = <<>> /\ tablesWritten = {} /\ dirCreated = FALSE
    /\ log = {}

\* a main that does not validate its environment
MainStartUnchecked ==
    /\ pc = "main"
    /\ pc' = "list_repos"
    /\ UNCHANGED <<config, loopVars, fetchVars, all_contributions, outVars, log>>

\* main: the environment check; the ValueError is raised outside the try
MainStart ==
    /\ pc = "main"
    /\ pc' = IF config.token /\ config.org THEN "list_repos" ELSE "crashed"
    /\ UNCHANGED <<config, loopVars, fetchVars, all_contributions, outVars, log>>

\* where a fault of get_organization_repos lands: analyze_contributions has
\* no handler around it, main's `except Exception` logs it
OrgListingFault ==
    /\ pc' = "done"
    /\ log' = log \cup {ErrorLog("fatal", "", "")}
    /\ UNCHANGED <<repos, ri>>

\* repos = self.get_organization_repos()
GetOrganizationRepos ==
    /\ pc = "list_repos"
    /\ \E r1 \in RepoResponses, r2 \in RepoResponses :
         /\ nreq' = ListingRequests(r1)
         /\ nsleep' = ListingSleeps(r1)
         /\ response' = ListingFinal(r1, r2)
         /\ IF ListingFails(r1, r2)
            THEN OrgListingFault
            ELSE /\ repos' = FullNames(ListingFinal(r1, r2).body)
                 /\ ri' = 1
                 /\ pc' = "repo_loop"
                 /\ log' = log
    /\ UNCHANGED <<config, contributors, ci, page, all_commits, lastReq, fpc,
                   all_contributions, outVars>>

\* a handler placed around the whole repository loop: the fault ends it
RepoListingFaultEndsLoop ==
    /\ ri' = Len(repos) + 1
    /\ pc' = "repo_loop"
    /\ log' = log \cup {ErrorLog("repo_error", CurRepo, "")}
    /\ UNCHANGED <<contributors, ci>>

\* a listing fault that is not caught in the repository loop
RepoListingFaultEscapes ==
    /\ pc' = "done"
    /\ log' = log \cup {ErrorLog("fatal", "", "")}
    /\ UNCHANGED <<ri, contributors, ci>>

\* except Exception as e: logger.error("Error processing repository ...")
RepoListingFault ==
    /\ ri' = ri + 1
    /\ pc' = "repo_loop"
    /\ log' = log \cup {ErrorLog("repo_error", CurRepo, "")}
    /\ UNCHANGED <<contributors, ci>>

\* for repo in repos: contributors = self.get_repository_contributors(repo)
GetRepositoryContributors ==
    /\ pc = "repo_loop" /\ ri <= Len(repos)
    /\ \E r1 \in ContributorResponses, r2 \in ContributorResponses :
         /\ nreq' = ListingRequests(r1)
         /\ nsleep' = ListingSleeps(r1)
         /\ response' = ListingFinal(r1, r2)
         /\ IF ListingFails(r1, r2)
            THEN RepoListingFault
            ELSE /\ contributors' = Logins(ListingFinal(r1, r2).body)
                 /\ ci' = 1
                 /\ pc' = "contrib_loop"
                 /\ UNCHANGED <<ri, log>>
    /\ UNCHANGED <<config, repos, page, all_commits, lastReq, fpc,
                   all_contributions, outVars>>

\* the repository loop is exhausted
ReposDone ==
    /\ pc = "repo_loop" /\ ri > Len(repos)
    /\ pc' = "aggregate"
    /\ UNCHANGED <<config, loopVars, fetchVars, all_contributions, outVars, log>>

\* the contributor loop of one repository is exhausted
ContributorsDone ==
    /\ pc = "contrib_loop" /\ ci > Len(contributors)
    /\ ri' = ri + 1
    /\ pc' = "repo_loop"
    /\ UNCHANGED <<config, repos, contributors, ci, fetchVars,
                   all_contributions, outVars, log>>

\* commits = self.fetch_commits_for_contributor(...): entry of the call
FetchStart ==
    /\ pc = "contrib_loop" /\ ci <= Len(contributors)
    /\ pc' = "fetch"
    /\ page' = 1 /\ all_commits' = <<>>
    /\ fpc' = "get" /\ nreq' = 0 /\ nsleep' = 0
    /\ UNCHANGED <<config, loopVars, response, lastReq, all_contributions,
                   outVars, log>>

\* commits_data = [...]; if commits_data: all_contributions.extend(...);
\* except Exception as e: logger.error("Error processing contributions ...")
ProcessCommits ==
    /\ pc = "fetch" /\ fpc = "returned"
    /\ LET data == CommitsData(CurRepo, CurContributor, all_commits)
       IN  IF data.ok
           THEN /\ all_contributions' = all_contributions \o data.events
                /\ log' = log
           ELSE /\ all_contributions' = all_contributions
                /\ log' = log \cup
                       {ErrorLog("contrib_error", CurRepo, CurContributor)}
    /\ ci' = ci + 1
    /\ pc' = "contrib_loop"
    \* the frame of the returned call and `commits` are dead from here on
    /\ fpc' = "idle" /\ page' = 1 /\ all_commits' = <<>>
    /\ response' = NoResponse /\ lastReq' = 0 /\ nreq' = 0 /\ nsleep' = 0
    /\ UNCHANGED <<config, repos, ri, contributors, outVars>>

\* the tail of analyze_contributions
Aggregate ==
    /\ pc = "aggregate"
    /\ IF NoContributions(all_contributions)
       THEN /\ analyses' = <<>>
            /\ log' = log \cup {ErrorLog("no_contributions", "", "")}
       ELSE /\ analyses' = Analyses(all_contributions)
            /\ log' = log
    /\ pc' = "export"
    /\ UNCHANGED <<config, loopVars, fetchVars, all_contributions,
                   tablesWritten, dirCreated>>

\* analyzer.export_reports(contributions_analyses); logger.info("... completed")
ExportReports ==
    /\ pc = "export"
    /\ dirCreated' = TRUE
    /\ tablesWritten' = TablesToWrite(analyses)
    /\ log' = log \cup {ErrorLog("completed", "", "")}
    /\ pc' = "done"
    /\ UNCHANGED <<config, loopVars, fetchVars, all_contributions, analyses>>

RunGet == FetchGet(RunResponses(page))
RunRetry == FetchRetry(RunResponses(RetryPage(page)))

Next ==
    \/ MainStart
    \/ GetOrganizationRepos
    \/ GetRepositoryContributors
    \/ ReposDone
    \/ ContributorsDone
    \/ FetchStart
    \/ RunGet
    \/ FetchBackoff
    \/ RunRetry
    \/ FetchPage
    \/ ProcessCommits
    \/ Aggregate
    \/ ExportReports

Spec == Init /\ [][Next]_vars

-----------------------------------------------------------------------------
(* The aggregation on its own: analyze_contributions from `Create          *)
(* DataFrame` on, over every short collection of CommitEvents.             *)

DaySamples == {1, 7, 8, 31, 32}
PairSamples == {<<"r1", "alice">>, <<"r1", "bob">>, <<"r2", "alice">>}

EventSamples ==
    { [repository |-> p[1], contributor |-> p[2], commit_date |-> d,
       commit_count |-> 1] : p \in PairSamples, d \in DaySamples }

InitAgg ==
    /\ pc = "aggregate"
    /\ config = [token |-> TRUE, org |-> TRUE]
    /\ repos = <<>> /\ ri = 1
    /\ contributors = <<>> /\ ci = 1
    /\ page = 1 /\ all_commits = <<>>
    /\ response = NoResponse /\ lastReq = 0
    /\ fpc = "idle" /\ nreq = 0 /\ nsleep = 0
    /\ all_contributions \in UNION {[1..n -> EventSamples] : n \in 0..MaxEvents}
    /\ analyses = <<>> /\ tablesWritten = {} /\ dirCreated = FALSE
    /\ log = {}

NextAgg ==
    \/ Aggregate
    \/ ExportReports

SpecAgg == InitAgg /\ [][NextAgg]_vars

-----------------------------------------------------------------------------
(* The date parsing on its own: the loop body of analyze_contributions on  *)
(* the commits one fetch returned, over every shape of timestamp string.   *)

ParseDays == {1, 31, 32}
TimestampSamples ==
    [ymd : ParseDays, sep : {"-", "/"}, frac : BOOLEAN,
     zone : {"Z", "+hh:mm", ""}]

InitParse ==
    /\ pc = "fetch"
    /\ config = [token |-> TRUE, org |-> TRUE]
    /\ repos = <<"r1">> /\ ri = 1
    /\ contributors = <<"alice">> /\ ci = 1
    /\ page = 2
    /\ \E n \in 1..MaxParseCommits : \E dates \in [1..n -> TimestampSamples] :
          all_commits = [i \in 1..n |-> [sha |-> <<1, i>>, date |-> dates[i]]]
    /\ response = Ok(<<>>) /\ lastReq = 2
    /\ fpc = "returned" /\ nreq = 2 /\ nsleep = 0
    /\ all_contributions = <<>>
    /\ analyses = <<>> /\ tablesWritten = {} /\ dirCreated = FALSE
    /\ log = {}

NextParse ==
    \/ ProcessCommits

SpecParse == InitParse /\ [][NextParse]_vars

\* the call runs on: time.sleep returns and every request is answered
FairSpecFetch == SpecFetch /\ WF_vars(NextFetch)

\* main runs to its end: a sequential program takes its next step
FairSpec == Spec /\ WF_vars(Next)

-----------------------------------------------------------------------------
(* Vocabulary of the properties *)

Logged(kind, r, c) == ErrorLog(kind, r, c) \in log
FetchFaulted == Logged("fetch_error", CurRepo, CurContributor)
Fatal == Logged("fatal", "", "")
NoDataNotice == Logged("no_contributions", "", "")
Completed == Logged("completed", "", "")

EventsOfRepo(r) ==
    SelectSeq(all_contributions, LAMBDA e : e.repository = r)
EventsOfPair(r, c) ==
    SelectSeq(all_contributions,
              LAMBDA e : e.repository = r /\ e.contributor = c)

IsPrefix(s, t) == Len(s) <= Len(t) /\ SubSeq(t, 1, Len(s)) = s

\* the fetch call has returned to the loop body of analyze_contributions
FetchReturned == pc = "fetch" /\ fpc = "returned"

\* a step inside the fetch loop that logs the fetch fault
FaultStep ==
    /\ pc = "fetch" /\ fpc # "returned" /\ ~FetchFaulted
    /\ ErrorLog("fetch_error", CurRepo, CurContributor) \in log'

\* the page numbers of the records in acc (record i of page p has sha <<p, i>>)
PagesOf(acc) == {acc[i].sha[1] : i \in DOMAIN acc}

-----------------------------------------------------------------------------
(* C1 *)

\* C1 as stated: when a page request of a fetch faults, the fetch returns
\* an empty sequence and no commit of that pair reaches all_contributions.
C1_FaultReturnsEmpty ==
    /\ (FetchReturned /\ FetchFaulted) => all_commits = <<>>
    /\ \A l \in log : l.kind = "fetch_error"
          => EventsOfPair(l.repo, l.contributor) = <<>>

\* C1 amended: a faulting page request ends the fetch without raising; the
\* fetch returns the pages it accumulated before the fault, untouched (pages
\* 1..page-1, so an empty sequence only when page 1 faulted).
C1_FaultKeepsAccumulated ==
    /\ [][FaultStep => /\ all_commits' = all_commits
                       /\ fpc' = "returned" /\ pc' = "fetch"
                       /\ page' = page]_vars
    /\ []((FetchReturned /\ FetchFaulted) => PagesOf(all_commits) = 1..(page - 1))

C1_Witness ==
    /\ FetchReturned /\ FetchFaulted
    /\ page = 2 /\ all_commits # <<>>

-----------------------------------------------------------------------------
(* C2 *)

\* C2 as stated: every run that starts with its configuration present ends
\* having exported the tables or logged the no-data notice, whatever faults
\* the listings and fetches raise.
C2_AlwaysOutputOrNotice ==
    pc = "done" => (tablesWritten = Granularities \/ NoDataNotice)

\* C2 amended: a run with its configuration present always ends; it ends
\* with the three tables exported or with the no-data notice whatever the
\* contributor listings and fetches raise, and with neither (only the error
\* record of main) exactly when the organization listing itself failed.
C2_RunEnds ==
    /\ (config.token /\ config.org) ~> (pc = "done")
    /\ [](pc = "done" =>
            \/ ~Fatal /\ Completed /\ tablesWritten = Granularities
                      /\ ~NoDataNotice
            \/ ~Fatal /\ Completed /\ tablesWritten = {} /\ NoDataNotice
            \/ Fatal /\ ~Completed /\ tablesWritten = {} /\ ~NoDataNotice)
    /\ [][(~Fatal /\ Fatal') => pc = "list_repos"]_vars
    /\ [][(pc = "list_repos" /\ pc' = "done") => Fatal']_vars

C2_Witness ==
    /\ pc = "done" /\ ~Fatal /\ tablesWritten = Granularities
    /\ \E l \in log : l.kind = "repo_error"
    /\ \E l \in log : l.kind = "fetch_error"

-----------------------------------------------------------------------------
(* C3 *)

\* pages 1..PAGE_LIMIT are in acc, each with PER_PAGE records
TenFullPages(acc) ==
    \A p \in 1..PAGE_LIMIT :
        /\ Len(acc) >= p * PER_PAGE
        /\ acc[(p - 1) * PER_PAGE + 1].sha = <<p, 1>>
        /\ acc[p * PER_PAGE].sha = <<p, PER_PAGE>>

\* C3: a fetch never requests a page above 10 and never holds records of a
\* page above 10; once ten pages are in, it has returned; ten full pages
\* make exactly 1000 records.
C3_PageCeiling ==
    /\ lastReq <= PAGE_LIMIT
    /\ PagesOf(all_commits) \subseteq 1..PAGE_LIMIT
    /\ page > PAGE_LIMIT => fpc = "returned"
    /\ TenFullPages(all_commits)
          => /\ Len(all_commits) = PAGE_LIMIT * PER_PAGE
             /\ fpc = "returned"

C3_Witness ==
    /\ fpc = "returned" /\ lastReq = PAGE_LIMIT
    /\ TenFullPages(all_commits) /\ Len(all_commits) = 1000

-----------------------------------------------------------------------------
(* C4 *)

\* the loop body runs on the answer to a retry
AfterRetry == pc = "fetch" /\ fpc = "second"

\* C4: a successful retry is handled exactly as a successful first request:
\* its records are appended once and the next page is page + 1 (an empty
\* page ends the fetch); rate-limit on page 1, success on retry and an empty
\* page 2 return exactly the records of page 1.
C4_RetrySuccessAsFirst ==
    /\ [][(AfterRetry /\ ~RaisesForStatus(response) /\ fpc' # fpc) =>
            IF response.body = <<>>
            THEN all_commits' = all_commits /\ page' = page
                 /\ fpc' = "returned"
            ELSE /\ all_commits' = all_commits \o response.body
                 /\ page' = page + 1
                 /\ fpc' \in {"get", "returned"}]_vars
    /\ []((/\ FetchReturned /\ ~FetchFaulted
           /\ page = 2 /\ nreq = 3 /\ nsleep = 1)
          => /\ all_commits # <<>>
             /\ \A i \in DOMAIN all_commits : all_commits[i].sha = <<1, i>>)

C4_Witness ==
    /\ FetchReturned /\ ~FetchFaulted
    /\ page = 2 /\ nreq = 3 /\ nsleep = 1 /\ lastReq = 2
    /\ Len(all_commits) = PER_PAGE

-----------------------------------------------------------------------------
(* C5 *)

\* C5: every request is either the first one for the next page number or
\* the retry of the current one; the retry is made only on a rate-limit
\* signal, after one backoff, for the same page number, and only once; a
\* rate-limited first request is always followed by the backoff.
C5_OneRetryPerPage ==
    /\ [][nreq' # nreq =>
            /\ nreq' = nreq + 1
            /\ \/ fpc = "get" /\ lastReq' = lastReq + 1 /\ lastReq' = page
               \/ /\ fpc = "retry" /\ lastReq' = lastReq /\ lastReq = page
                  /\ IsRateLimited(response)]_vars
    /\ [][(fpc = "first" /\ IsRateLimited(response) /\ fpc' # fpc) =>
            fpc' = "retry" /\ nsleep' = nsleep + 1 /\ nreq' = nreq]_vars
    /\ [][nsleep' # nsleep => fpc = "first" /\ IsRateLimited(response)]_vars
    /\ [][fpc = "second" => fpc' \in {"second", "get", "returned"}]_vars
    /\ [](/\ fpc = "retry" => nreq = lastReq + nsleep - 1
          /\ fpc # "retry" => nreq = lastReq + nsleep)

C5_Witness ==
    /\ fpc = "second" /\ page = 2 /\ lastReq = 2 /\ nreq = 3 /\ nsleep = 1

-----------------------------------------------------------------------------
(* C6 *)

\* C6: a fault of the contributor listing of repository X adds no event of
\* X and changes nothing else: the events collected so far stay, the loop
\* moves to the next repository, and every event ever added is appended for
\* the repository then being processed.
C6_ListingFaultIsolated ==
    /\ [](\A l \in log : l.kind = "repo_error" => EventsOfRepo(l.repo) = <<>>)
    /\ [][(pc = "repo_loop" /\ log' # log) =>
            /\ ErrorLog("repo_error", CurRepo, "") \in log'
            /\ all_contributions' = all_contributions
            /\ repos' = repos /\ ri' = ri + 1 /\ pc' = "repo_loop"]_vars
    /\ [][all_contributions' # all_contributions =>
            /\ IsPrefix(all_contributions, all_contributions')
            /\ \A i \in (Len(all_contributions) + 1)..Len(all_contributions') :
                   all_contributions'[i].repository = CurRepo]_vars

C6_Witness ==
    /\ pc = "done"
    /\ Logged("repo_error", "r1", "")
    /\ EventsOfRepo("r2") # <<>>

-----------------------------------------------------------------------------
(* C7 *)

Unparseable(commits) ==
    \E i \in DOMAIN commits : ~parse_datetime(commits[i].date).ok

\* C7: when one fetched commit of a pair has an unparseable date, no commit
\* of the pair is added, the events already collected stay and the loop
\* goes on to the next contributor; otherwise every fetched commit becomes
\* one event; a run that met such a commit still reaches the aggregation.
C7_BadDateDropsOnlyThePair ==
    /\ [][(FetchReturned /\ pc' # pc) =>
            /\ pc' = "contrib_loop" /\ ci' = ci + 1 /\ ri' = ri
            /\ IF Unparseable(all_commits)
               THEN /\ all_contributions' = all_contributions
                    /\ ErrorLog("contrib_error", CurRepo, CurContributor)
                          \in log'
               ELSE /\ IsPrefix(all_contributions, all_contributions')
                    /\ Len(all_contributions')
                          = Len(all_contributions) + Len(all_commits)]_vars
    /\ [](\A l \in log : l.kind = "contrib_error"
             => EventsOfPair(l.repo, l.contributor) = <<>>)
    /\ []((pc = "done" /\ \E l \in log : l.kind = "contrib_error")
             => Completed /\ ~Fatal)

C7_Witness ==
    /\ pc = "done"
    /\ Logged("contrib_error", "r1", "alice")
    /\ EventsOfPair("r1", "bob") # <<>>
    /\ EventsOfRepo("r2") # <<>>

-----------------------------------------------------------------------------
(* C8 *)

\* C8: with no event collected, analyze_contributions returns the empty
\* dictionary (not three empty tables), the notice is logged, and no table
\* is written.
C8_NoDataNoTables ==
    (pc \in {"export", "done"} /\ ~Fatal /\ all_contributions = <<>>)
        => /\ DOMAIN analyses = {}
           /\ NoDataNotice
           /\ tablesWritten = {}

C8_Witness ==
    /\ pc = "done" /\ ~Fatal /\ all_contributions = <<>>
    /\ Len(repos) = 2 /\ dirCreated

-----------------------------------------------------------------------------
(* C9 *)

RECURSIVE SumRows(_)
SumRows(rows) ==
    IF rows = {} THEN 0
    ELSE LET r == CHOOSE x \in rows : TRUE
         IN  r.commit_count + SumRows(rows \ {r})

RECURSIVE SumEvents(_)
SumEvents(events) ==
    IF events = <<>> THEN 0
    ELSE Head(events).commit_count + SumEvents(Tail(events))

RowsOfPair(table, r, c) ==
    {row \in table : row.repository = r /\ row.contributor = c}

Aggregated == pc \in {"export", "done"} /\ DOMAIN analyses = Granularities

PairsSeen ==
    {<<all_contributions[i].repository, all_contributions[i].contributor>> :
        i \in DOMAIN all_contributions}

\* C9: for every pair, the daily, the weekly and the monthly totals each add
\* up to the number of events collected for the pair, and no table has a
\* row for a pair without events.
C9_TotalsAgree ==
    Aggregated =>
        \A g \in Granularities :
            /\ \A p \in PairsSeen :
                  SumRows(RowsOfPair(analyses[g], p[1], p[2]))
                      = Len(EventsOfPair(p[1], p[2]))
            /\ \A row \in analyses[g] :
                  <<row.repository, row.contributor>> \in PairsSeen

C9_Witness ==
    /\ Aggregated
    /\ Len(EventsOfPair("r1", "alice")) = 3
    /\ Cardinality(RowsOfPair(analyses["daily_contributions"], "r1", "alice")) = 2
    /\ Cardinality(RowsOfPair(analyses["monthly_contributions"], "r1", "alice")) = 1

-----------------------------------------------------------------------------
(* C10 *)

\* sum of count over the events of the pair dated in lo..hi
CountBetween(r, c, lo, hi) ==
    SumEvents(SelectSeq(all_contributions,
        LAMBDA e : /\ e.repository = r /\ e.contributor = c
                   /\ lo <= e.commit_date /\ e.commit_date <= hi))

MonthEnds == {31, 60, 91}
PrevMonthEnd(d) ==
    LET before == {m \in MonthEnds : m < d}
    IN  IF before = {} THEN 0
        ELSE CHOOSE m \in before : \A n \in before : n <= m
ThisMonthEnd(d) ==
    LET from == {m \in MonthEnds : m >= d}
    IN  CHOOSE m \in from : \A n \in from : m <= n

\* the same day of the next month, clamped to the length of that month
PlusOneMonth(d) ==
    LET dayOfMonth == d - PrevMonthEnd(d)
        nextStart == ThisMonthEnd(d) + 1
        nextEnd == ThisMonthEnd(nextStart)
    IN  IF nextStart + dayOfMonth - 1 <= nextEnd
        THEN nextStart + dayOfMonth - 1 ELSE nextEnd

PeriodAfter(g, d) ==
    IF g = "daily_contributions" THEN d + 1
    ELSE IF g = "weekly_contributions" THEN d + 7
    ELSE PlusOneMonth(d)

\* C10 as stated: in each table the date of a row starts its period: the
\* total is the count of the events of the pair in [date, date + one period).
C10_RowDateStartsPeriod ==
    Aggregated =>
        \A g \in Granularities : \A row \in analyses[g] :
            row.commit_count =
                CountBetween(row.repository, row.contributor,
                             row.commit_date, PeriodAfter(g, row.commit_date) - 1)

\* C10 amended: a daily row carries its day and totals the events of that
\* day; a weekly row carries the Sunday that ends its week and totals the
\* events of the seven days ending on it; a monthly row carries the last
\* day of its month and totals the events of that calendar month.
C10_RowDateEndsPeriod ==
    Aggregated =>
        /\ \A row \in analyses["daily_contributions"] :
              row.commit_count =
                  CountBetween(row.repository, row.contributor,
                               row.commit_date, row.commit_date)
        /\ \A row \in analyses["weekly_contributions"] :
              /\ Weekday(row.commit_date) = 6
              /\ row.commit_count =
                  CountBetween(row.repository, row.contributor,
                               row.commit_date - 6, row.commit_date)
        /\ \A row \in analyses["monthly_contributions"] :
              /\ row.commit_date \in MonthEnds
              /\ row.commit_count =
                  CountBetween(row.repository, row.contributor,
                               PrevMonthEnd(row.commit_date) + 1,
                               row.commit_date)

C10_Witness ==
    /\ Aggregated
    /\ \E row \in analyses["weekly_contributions"] :
          /\ row.commit_date = 7 /\ row.commit_count = 2
          /\ CountBetween(row.repository, row.contributor, 1, 1) = 1
          /\ CountBetween(row.repository, row.contributor, 7, 7) = 1
    /\ \E row \in analyses["monthly_contributions"] :
          row.commit_date = 31 /\ row.commit_count = 3

-----------------------------------------------------------------------------
(* C11 *)

\* the rearrangements of a sequence of length n
Perms(n) == {f \in [1..n -> 1..n] : \A i, j \in 1..n : f[i] = f[j] => i = j}
Permuted(s, f) == [i \in DOMAIN s |-> s[f[i]]]

\* C11: the tables computed from the collected events are the tables any
\* rearrangement of the same events gives: the same rows in the daily, the
\* weekly and the monthly table.
C11_OrderIndependent ==
    Aggregated =>
        \A f \in Perms(Len(all_contributions)) : \A g \in Granularities :
            Analyses(Permuted(all_contributions, f))[g] = analyses[g]

C11_Witness ==
    /\ Aggregated /\ Len(all_contributions) = 3
    /\ all_contributions[1] = all_contributions[3]
    /\ all_contributions[2].repository # all_contributions[1].repository
    /\ \E row \in analyses["daily_contributions"] : row.commit_count = 2

-----------------------------------------------------------------------------
(* C12 *)

\* C12: the aggregation is entered once, from the exhausted repository loop
\* only; the repository index advances one repository at a time, either on
\* a listing fault or when the contributors of the repository are
\* exhausted, and the contributor index one contributor at a time, when its
\* fetch has returned; the run reaches its end only from the export or from
\* a failed organization listing.
C12_AggregateOnceAfterAllRepos ==
    /\ [][(pc' = "aggregate" /\ pc # "aggregate") =>
            pc = "repo_loop" /\ ri = Len(repos) + 1]_vars
    /\ [][pc = "aggregate" => pc' \in {"aggregate", "export"}]_vars
    /\ [][(pc \in {"export", "done"}) => pc' \in {"export", "done"}]_vars
    /\ [][DOMAIN analyses' # DOMAIN analyses => pc = "aggregate"]_vars
    /\ [][ri' # ri =>
            /\ ri' = ri + 1 /\ ri <= Len(repos)
            /\ \/ pc = "repo_loop"
               \/ pc = "contrib_loop" /\ ci = Len(contributors) + 1]_vars
    /\ [][ci' # ci =>
            \/ pc = "repo_loop" /\ ci' = 1
            \/ FetchReturned /\ ci' = ci + 1 /\ ci <= Len(contributors)]_vars
    /\ [][(pc' = "done" /\ pc # "done") => pc \in {"export", "list_repos"}]_vars

C12_Witness ==
    /\ pc = "export" /\ Len(repos) = 2 /\ ri = 3
    /\ Logged("repo_error", "r1", "")
    /\ Logged("contrib_error", "r2", "alice")
    /\ Logged("fetch_error", "r2", "bob")
    /\ DOMAIN analyses = Granularities

-----------------------------------------------------------------------------
(* C13 *)

ConfigurationMissing == ~config.token \/ ~config.org

\* C13: with the token or the organization name missing the run goes from
\* its start straight to the uncaught ValueError: no request is issued, no
\* list is obtained, nothing is collected, written or logged.
C13_MissingConfigurationStartsNothing ==
    ConfigurationMissing =>
        /\ pc \in {"main", "crashed"}
        /\ nreq = 0 /\ nsleep = 0 /\ lastReq = 0 /\ response = NoResponse
        /\ repos = <<>> /\ contributors = <<>>
        /\ all_commits = <<>> /\ all_contributions = <<>>
        /\ tablesWritten = {} /\ ~dirCreated
        /\ log = {}

C13_Witness ==
    /\ pc = "crashed"
    /\ config.token /\ ~config.org

-----------------------------------------------------------------------------
(* C14 *)

\* the formats among the three that parse the string, by position
FormatsParsing(ts) ==
    {k \in DOMAIN timestamp_formats : StrptimeMatches(ts, timestamp_formats[k])}

\* C14: parse_datetime succeeds exactly on the strings one of its three
\* formats parses and then gives the date the string spells (which is what
\* the first parsing format gives); in the loop body every commit becomes an
\* event dated so when all dates parse, none does when one date parses
\* under no format, and the parsing changes nothing else.
C14_ParseProbesThreeFormats ==
    /\ [](\A i \in DOMAIN all_commits :
            LET ts == all_commits[i].date
                r == parse_datetime(ts)
            IN  /\ r.ok <=> FormatsParsing(ts) # {}
                /\ r.ok => r.date = ts.ymd)
    /\ [][(FetchReturned /\ pc' # pc) =>
            /\ IF \A i \in DOMAIN all_commits :
                     FormatsParsing(all_commits[i].date) # {}
               THEN all_contributions' = all_contributions \o
                       [i \in DOMAIN all_commits |->
                           [repository |-> CurRepo,
                            contributor |-> CurContributor,
                            commit_date |-> all_commits[i].date.ymd,
                            commit_count |-> 1]]
               ELSE all_contributions' = all_contributions
            /\ UNCHANGED <<config, repos, ri, contributors, outVars>>]_vars

C14_Witness ==
    /\ pc = "contrib_loop" /\ log = {}
    /\ Len(all_contributions) = 2
    /\ all_contributions[1].commit_date = 32
    /\ all_contributions[2].commit_date = 31

-----------------------------------------------------------------------------
(* C15 *)

\* Monday-to-Sunday weeks and calendar months, counted from the calendar
WeekOf(d) == (d - 1) \div 7
MonthOf(d) == Cardinality({m \in MonthEnds : m < d})

\* the rows of the pair of event e whose bucket holds the date of e
WeeklyRowsHolding(e) ==
    {row \in RowsOfPair(analyses["weekly_contributions"],
                        e.repository, e.contributor) :
        row.commit_date - 6 <= e.commit_date /\ e.commit_date <= row.commit_date}
MonthlyRowsHolding(e) ==
    {row \in RowsOfPair(analyses["monthly_contributions"],
                        e.repository, e.contributor) :
        MonthOf(row.commit_date) = MonthOf(e.commit_date)}

SamePair(e, f) ==
    e.repository = f.repository /\ e.contributor = f.contributor

\* C15: every event lies in exactly one weekly row of its pair, labelled
\* with the Sunday ending the week of its date, and in exactly one monthly
\* row of its pair, labelled with the last day of the month of its date;
\* each row totals the events of its bucket; two events of one pair share a
\* weekly (monthly) row exactly when their dates are in the same week (month).
C15_WeekEndingMonthEndBuckets ==
    Aggregated =>
        /\ \A i \in DOMAIN all_contributions :
              LET e == all_contributions[i]
                  d == e.commit_date
              IN  /\ Cardinality(WeeklyRowsHolding(e)) = 1
                  /\ \A row \in WeeklyRowsHolding(e) :
                        /\ row.commit_date = 7 * WeekOf(d) + 7
                        /\ row.commit_count =
                              Cardinality({j \in DOMAIN all_contributions :
                                  /\ SamePair(all_contributions[j], e)
                                  /\ WeekOf(all_contributions[j].commit_date)
                                        = WeekOf(d)})
                  /\ Cardinality(MonthlyRowsHolding(e)) = 1
                  /\ \A row \in MonthlyRowsHolding(e) :
                        /\ row.commit_date \in MonthEnds
                        /\ row.commit_count =
                              Cardinality({j \in DOMAIN all_contributions :
                                  /\ SamePair(all_contributions[j], e)
                                  /\ MonthOf(all_contributions[j].commit_date)
                                        = MonthOf(d)})
        /\ \A i, j \in DOMAIN all_contributions :
              LET e == all_contributions[i]
                  f == all_contributions[j]
              IN  SamePair(e, f) =>
                    /\ (WeeklyRowsHolding(e) \cap WeeklyRowsHolding(f) # {})
                          <=> WeekOf(e.commit_date) = WeekOf(f.commit_date)
                    /\ (MonthlyRowsHolding(e) \cap MonthlyRowsHolding(f) # {})
                          <=> MonthOf(e.commit_date) = MonthOf(f.commit_date)

C15_Witness ==
    /\ Aggregated
    /\ \E i, j, k \in DOMAIN all_contributions :
          /\ all_contributions[i].commit_date = 1
          /\ all_contributions[j].commit_date = 7
          /\ all_contributions[k].commit_date = 32
    /\ RowsOfPair(analyses["weekly_contributions"], "r1", "alice") =
          {[repository |-> "r1", contributor |-> "alice",
            commit_date |-> 7, commit_count |-> 2],
           [repository |-> "r1", contributor |-> "alice",
            commit_date |-> 35, commit_count |-> 1]}
    /\ RowsOfPair(analyses["monthly_contributions"], "r1", "alice") =
          {[repository |-> "r1", contributor |-> "alice",
            commit_date |-> 31, commit_count |-> 2],
           [repository |-> "r1", contributor |-> "alice",
            commit_date |-> 60, commit_count |-> 1]}

-----------------------------------------------------------------------------
(* C16 *)

\* the contributor listing of the current repository is being called
ListingContributors == pc = "repo_loop" /\ ri <= Len(repos)

\* C16: a contributor listing suspends at most once and asks once more per
\* suspension; when the answer it ends with is a success (after a backoff
\* or not) the loop over exactly the listed contributors starts and nothing
\* is logged; when the listing was rate-limited and its retry is
\* rate-limited again it makes no third request, the fault is logged for
\* that repository and the loop moves to the next repository with the
\* events collected so far untouched.
C16_ListingRetriedOnce ==
    [][ListingContributors =>
          /\ nsleep' \in {0, 1} /\ nreq' = 1 + nsleep'
          /\ repos' = repos /\ all_contributions' = all_contributions
          /\ response'.status = 200 =>
                /\ contributors' = [i \in DOMAIN response'.body |->
                                        response'.body[i].login]
                /\ pc' = "contrib_loop" /\ ci' = 1 /\ ri' = ri
                /\ log' = log
          /\ IsRateLimited(response') =>
                /\ nsleep' = 1 /\ nreq' = 2
                /\ log' = log \cup {ErrorLog("repo_error", repos[ri], "")}
                /\ pc' = "repo_loop" /\ ri' = ri + 1
                /\ contributors' = contributors]_vars

C16_Witness ==
    /\ pc = "contrib_loop" /\ ci = 1
    /\ nsleep = 1 /\ nreq = 2
    /\ response = Ok(<<[login |-> "alice"], [login |-> "bob"]>>)
    /\ contributors = <<"alice", "bob">>
    /\ log = {}

-----------------------------------------------------------------------------
(* C17 *)

\* what is left of the call at most: the pages still allowed, and within a
\* page the steps from the get to the end of the loop body
StepsLeft ==
    IF fpc = "returned" THEN 0
    ELSE 4 * (PAGE_LIMIT + 1 - page)
         + (IF fpc = "get" THEN 3 ELSE IF fpc = "first" THEN 2
            ELSE IF fpc = "retry" THEN 1 ELSE 0)

\* C17: whatever the server answers, a fetch makes at most 20 requests and
\* at most 10 backoff suspensions, every step brings it closer to its
\* return, it is never stuck before the return, and it does return.
C17_FetchTerminates ==
    /\ [](nreq <= 2 * PAGE_LIMIT /\ nsleep <= PAGE_LIMIT)
    /\ [](page \in 1..(PAGE_LIMIT + 1))
    /\ [][StepsLeft' < StepsLeft]_vars
    /\ [](fpc # "returned" => ENABLED NextFetch)
    /\ <>(fpc = "returned")

C17_Witness ==
    /\ fpc = "returned"
    /\ nreq = 2 * PAGE_LIMIT /\ nsleep = PAGE_LIMIT
    /\ Len(all_commits) = PAGE_LIMIT * PER_PAGE

-----------------------------------------------------------------------------
(* C18 *)

\* the loop body is about to run on a successful answer
PageArrived ==
    /\ pc = "fetch"
    /\ \/ fpc = "first" /\ ~IsRateLimited(response)
       \/ fpc = "second"
    /\ response.status = 200

\* acc is made of the records of pages 1, 2, ..., n in this order, each
\* record once and in the order of its page
PagesInOrder(acc, n) ==
    /\ PagesOf(acc) = 1..n
    /\ acc # <<>> => acc[1].sha = <<1, 1>>
    /\ \A i \in 1..(Len(acc) - 1) :
          \/ /\ acc[i + 1].sha[1] = acc[i].sha[1]
             /\ acc[i + 1].sha[2] = acc[i].sha[2] + 1
          \/ /\ acc[i + 1].sha[1] = acc[i].sha[1] + 1
             /\ acc[i + 1].sha[2] = 1

\* C18: the page asked for is always the one after the last page kept, so
\* the page numbers asked are 1, 2, 3, ...; the accumulator holds the pages
\* kept so far, whole, once each and in order, and changes only by a
\* non-empty successful page being appended; an empty page ends the fetch
\* with no request after it; a non-empty page below the ceiling, short or
\* full, is followed by the request of the next page.
C18_PagesAccumulateInOrder ==
    /\ [](lastReq \in {page - 1, page})
    /\ [][lastReq' # lastReq => lastReq' = lastReq + 1 /\ lastReq' = page]_vars
    /\ [](PagesInOrder(all_commits, page - 1))
    /\ [][all_commits' # all_commits =>
            /\ PageArrived /\ response.body # <<>> /\ lastReq = page
            /\ all_commits' = all_commits \o response.body
            /\ page' = page + 1]_vars
    /\ [][(PageArrived /\ fpc' # fpc) =>
            IF response.body = <<>>
            THEN /\ fpc' = "returned"
                 /\ all_commits' = all_commits /\ nreq' = nreq
            ELSE /\ all_commits' = all_commits \o response.body
                 /\ page < PAGE_LIMIT => fpc' = "get"]_vars
    /\ [][nreq' # nreq => fpc \in {"get", "retry"}]_vars
    /\ [][fpc = "returned" => fpc' = "returned" /\ nreq' = nreq]_vars

C18_Witness ==
    /\ fpc = "first" /\ page = 3 /\ lastReq = 3
    /\ Len(all_commits) = 1 + PER_PAGE
    /\ all_commits[1].sha = <<1, 1>>
    /\ all_commits[2].sha = <<2, 1>>
    /\ all_commits[1 + PER_PAGE].sha = <<2, PER_PAGE>>

====
